---- MODULE Spec2Model ----
(***************************************************************************)
(* Deterministic 2-D scalar-field engine (src/src/lib.rs).                 *)
(*                                                                         *)
(* Representation of the machine types:                                    *)
(*   u64 word   the set of its set bit positions, a subset of 0..63        *)
(*   f64 field  a fixed-point integer counting units of 1/One, so that the *)
(*              value -1.0 is -One; every product is rounded (floor) back  *)
(*              to a whole number of units, as f64 rounds every operation  *)
(*   f64 alpha  an integer counting hundredths (0.25 is 25)                *)
(*   Option<T>  the empty tuple (None) or a one-element tuple (Some)       *)
(*   Vec<f64>   a function on 0..len-1                                     *)
(*   u32 args of get_field_slice: a pair <<high, low>> of 16-bit limbs     *)
(***************************************************************************)
EXTENDS Integers, Sequences, FiniteSets, TLC

\* state            the thread-local STATE: Option<EngineState>
\* last             the last call made, its arguments and its outcome
\* cfg              history: Some of the (dim, seed, alpha) of the last
\*                  init_engine that succeeded, None while none has
\* overflow_checks  whether the build traps on integer overflow (Cargo's
\*                  overflow-checks: on in debug builds, off in release)
VARIABLES state, last, cfg, overflow_checks

vars == <<state, last, cfg, overflow_checks>>

(* ------------------------------ bounds -------------------------------- *)
\* largest grid side whose field is populated by the model
MaxGrid == 5
\* seeds passed to init_engine are 0..MaxSeed
MaxSeed == 1
\* largest n passed to tick
MaxN == 2
\* tick is not called once it would take the step counter past MaxStep
MaxStep == 3

(* ------------------------- program constants -------------------------- *)
MinDim == 4
MaxDim == 512
MaxAlpha == 25
AlphaScale == 100
WordBits == 64
FracBits == 16
Limb == 65536

RECURSIVE Pow2(_)
Pow2(k) == IF k = 0 THEN 1 ELSE 2 * Pow2(k - 1)

\* the unit of the fixed-point field values: 1.0 is One units
One == Pow2(FracBits)

(* ------------------------------ Option -------------------------------- *)
None == <<>>
Some(v) == <<v>>

(* ---------------------------- u64 words ------------------------------- *)
Bits == 0 .. (WordBits - 1)

RECURSIVE NatBits(_, _)
\* the set bit positions of the natural number n, counted from position i
NatBits(n, i) ==
    IF n = 0 THEN {}
    ELSE (IF n % 2 = 1 THEN {i} ELSE {}) \cup NatBits(n \div 2, i + 1)

Shl(x, k) == {i + k : i \in {j \in x : j + k < WordBits}}
Shr(x, k) == {i - k : i \in {j \in x : j >= k}}
Xor(a, b) == (a \ b) \cup (b \ a)

xorshift64(x0) ==
    LET x1 == Xor(x0, Shl(x0, 13))
        x2 == Xor(x1, Shr(x1, 7))
        x3 == Xor(x2, Shl(x2, 17))
    IN  x3

seed_to_u64(seed) == seed

RECURSIVE TopBits(_, _)
\* the integer held in the top FracBits + 1 bits of the word s, bit by bit
TopBits(s, i) ==
    IF i > FracBits THEN 0
    ELSE (IF (WordBits - 1 - FracBits + i) \in s THEN Pow2(i) ELSE 0)
         + TopBits(s, i + 1)

\* u = s / u64::MAX ; u * 2.0 - 1.0, in units of 1/One
UnitValue(s) == TopBits(s, 0) - One

(* ---------------------------- f64 arithmetic -------------------------- *)
\* alpha * v, rounded to a whole number of units
FMul(alpha, v) == (alpha * v) \div AlphaScale

(* ------------------------------ indexing ------------------------------ *)
idx(dim, x, y) == y * dim + x

\* Rust's % truncates toward zero
RustRem(v, d) == IF v >= 0 THEN v % d ELSE -((-v) % d)

\* variant: the negative remainder is not brought back into 0..dim-1
wrapNoFix(dim, v) == RustRem(v, dim)

wrap(dim, v) ==
    LET d == dim
        r == RustRem(v, d)
    IN  IF r < 0 THEN r + d ELSE r

(* ------------------------------ Vec ----------------------------------- *)
VecLen(v) == Cardinality(DOMAIN v)
EmptyVec == [i \in {} |-> 0]
Push(v, e) == v @@ (VecLen(v) :> e)

(* ---------------------------- init_engine ----------------------------- *)
\* variant: the upper bound of alpha taken as exclusive
InitAssertsExclusive(dim, alpha) ==
    /\ dim >= MinDim /\ dim <= MaxDim
    /\ alpha > 0 /\ alpha < MaxAlpha

\* variant: the lower bound of alpha taken as inclusive
InitAssertsZeroAlpha(dim, alpha) ==
    /\ dim >= MinDim /\ dim <= MaxDim
    /\ alpha >= 0 /\ alpha <= MaxAlpha

InitAsserts(dim, alpha) ==
    /\ dim >= MinDim /\ dim <= MaxDim
    /\ alpha > 0 /\ alpha <= MaxAlpha

RECURSIVE PopulateSeedFirst(_, _, _)
\* variant: the value is pushed before the generator is advanced, so that
\* the first cell comes from the seed itself
PopulateSeedFirst(s, n, field) ==
    IF VecLen(field) = n THEN field
    ELSE PopulateSeedFirst(xorshift64(s), n, Push(field, UnitValue(s)))

RECURSIVE Populate(_, _, _)
\* for _ in 0..n { s = xorshift64(s); field.push(map(s)) }
Populate(s, n, field) ==
    IF VecLen(field) = n THEN field
    ELSE LET s2 == xorshift64(s)
         IN  Populate(s2, n, Push(field, UnitValue(s2)))

\* the field init_engine builds for (dim, seed)
SeededField(dim, seed) ==
    Populate(seed_to_u64(NatBits(seed, 0)), dim * dim, EmptyVec)

\* SeededField tabulated once over the grids and seeds of the model
FieldTable ==
    [dim \in MinDim .. MaxGrid |-> [seed \in 0 .. MaxSeed |-> SeededField(dim, seed)]]

NewState(dim, seed, alpha) ==
    [dim   |-> dim,
     step  |-> 0,
     field |-> FieldTable[dim][seed],
     alpha |-> alpha]

\* variant: the held state is taken out before the arguments are validated
InitEngineStateTaken(prev, dim, seed, alpha) ==
    IF InitAsserts(dim, alpha) THEN Some(NewState(dim, seed, alpha)) ELSE None

\* variant: a held field of the same dim is kept instead of being repopulated
InitEngineStateReuse(prev, dim, seed, alpha) ==
    IF ~InitAsserts(dim, alpha) THEN prev
    ELSE IF prev # None /\ prev[1].dim = dim
         THEN Some([prev[1] EXCEPT !.step = 0, !.alpha = alpha])
         ELSE Some(NewState(dim, seed, alpha))

\* variant: the step counter of the held state survives the replacement
InitEngineStateKeepStep(prev, dim, seed, alpha) ==
    IF InitAsserts(dim, alpha)
    THEN Some([NewState(dim, seed, alpha) EXCEPT
                  !.step = IF prev = None THEN 0 ELSE prev[1].step])
    ELSE prev

\* the value of STATE after init_engine(dim, seed, alpha) called when STATE holds prev
InitEngineState(prev, dim, seed, alpha) ==
    IF InitAsserts(dim, alpha) THEN Some(NewState(dim, seed, alpha)) ELSE prev

(* ------------------------------- tick --------------------------------- *)
RECURSIVE CellLoopInPlace(_, _, _, _, _)
\* variant: one buffer only, the terms are read from the buffer being written
CellLoopInPlace(field, next, dim, alpha, k) ==
    IF k = dim * dim THEN next
    ELSE LET y == k \div dim
             x == k % dim
             c == next[idx(dim, x, y)]
             l == next[idx(dim, wrap(dim, x - 1), y)]
             r == next[idx(dim, wrap(dim, x + 1), y)]
             u == next[idx(dim, x, wrap(dim, y - 1))]
             d == next[idx(dim, x, wrap(dim, y + 1))]
             lap == (l + r + u + d) - 4 * c
         IN  CellLoopInPlace(field,
                             [next EXCEPT ![idx(dim, x, y)] = c + FMul(alpha, lap)],
                             dim, alpha, k + 1)

RECURSIVE CellLoopThreeC(_, _, _, _, _)
\* variant: the centre is subtracted three times instead of four
CellLoopThreeC(field, next, dim, alpha, k) ==
    IF k = dim * dim THEN next
    ELSE LET y == k \div dim
             x == k % dim
             c == field[idx(dim, x, y)]
             l == field[idx(dim, wrap(dim, x - 1), y)]
             r == field[idx(dim, wrap(dim, x + 1), y)]
             u == field[idx(dim, x, wrap(dim, y - 1))]
             d == field[idx(dim, x, wrap(dim, y + 1))]
             lap == (l + r + u + d) - 3 * c
         IN  CellLoopThreeC(field,
                            [next EXCEPT ![idx(dim, x, y)] = c + FMul(alpha, lap)],
                            dim, alpha, k + 1)

RECURSIVE CellLoop(_, _, _, _, _)
\* the y and x loops of one step, cell k = y*dim + x visited in row-major
\* order; every term is read from field, every result written to next
CellLoop(field, next, dim, alpha, k) ==
    IF k = dim * dim THEN next
    ELSE LET y == k \div dim
             x == k % dim
             c == field[idx(dim, x, y)]
             l == field[idx(dim, wrap(dim, x - 1), y)]
             r == field[idx(dim, wrap(dim, x + 1), y)]
             u == field[idx(dim, x, wrap(dim, y - 1))]
             d == field[idx(dim, x, wrap(dim, y + 1))]
             lap == (l + r + u + d) - 4 * c
         IN  CellLoop(field,
                      [next EXCEPT ![idx(dim, x, y)] = c + FMul(alpha, lap)],
                      dim, alpha, k + 1)

\* the indices tick computes for the cell (x, y): the five it reads in field
\* and the one it writes in next
TickIndices(dim, x, y) ==
    {idx(dim, x, y),
     idx(dim, wrap(dim, x - 1), y), idx(dim, wrap(dim, x + 1), y),
     idx(dim, x, wrap(dim, y - 1)), idx(dim, x, wrap(dim, y + 1))}

RECURSIVE StepLoopCommitLast(_, _, _)
\* variant: the field is committed once, after the loop over the steps
StepLoopCommitLast(st, next, n) ==
    IF n = 0 THEN [st EXCEPT !.field = next]
    ELSE StepLoopCommitLast([st EXCEPT !.step = st.step + 1],
                            CellLoop(st.field, next, st.dim, st.alpha, 0), n - 1)

RECURSIVE StepLoop(_, _, _)
\* for _ in 0..n: one pass over the grid into next, then the commit
StepLoop(st, next, n) ==
    IF n = 0 THEN st
    ELSE LET nx == CellLoop(st.field, next, st.dim, st.alpha, 0)
         IN  StepLoop([st EXCEPT !.field = nx, !.step = st.step + 1], nx, n - 1)

\* variant: the loop over the steps runs over 1..n
TickFromOne(st, n) == StepLoop(st, st.field, IF n = 0 THEN 0 ELSE n - 1)

\* the engine state after tick(n) on the engine state st
Tick(st, n) == StepLoop(st, st.field, n)

\* expect("engine not initialized"): tick(n) returns rather than panics
TickOk(opt, n) == opt # None

\* variant: an engine is created when none is held
TickStateImplicit(opt, n) ==
    IF opt = None THEN Some(Tick(NewState(MinDim, 0, MaxAlpha), n))
    ELSE Some(Tick(opt[1], n))

\* the value of STATE after tick(n) called when STATE holds opt
TickState(opt, n) == IF TickOk(opt, n) THEN Some(Tick(opt[1], n)) ELSE opt

(* --------------------------- u32 arithmetic --------------------------- *)
U32(n) == <<n \div Limb, n % Limb>>
U32Max == <<Limb - 1, Limb - 1>>
\* the natural number held by a u32 below 2^31
ToNat(a) == a[1] * Limb + a[2]
Lt(a, b) == a[1] < b[1] \/ (a[1] = b[1] /\ a[2] < b[2])
Le(a, b) == ~Lt(b, a)

\* a + b does not fit in 32 bits
AddOverflows(a, b) == a[1] + b[1] + ((a[2] + b[2]) \div Limb) >= Limb
\* a + b modulo 2^32
WrappingAdd(a, b) ==
    <<(a[1] + b[1] + ((a[2] + b[2]) \div Limb)) % Limb, (a[2] + b[2]) % Limb>>

\* the 32-bit product of two 16-bit limbs, as <<high, low>>
Mul16(a, b) ==
    LET t1 == (a \div 256) * b
        t0 == (a % 256) * b
        lo == (t1 % 256) * 256 + (t0 % Limb)
    IN  <<(t1 \div 256) + (t0 \div Limb) + (lo \div Limb), lo % Limb>>

\* a * b does not fit in 32 bits
MulOverflows(a, b) ==
    \/ (a[1] # 0 /\ b[1] # 0)
    \/ Mul16(a[1], b[2])[1] # 0
    \/ Mul16(a[2], b[1])[1] # 0
    \/ Mul16(a[2], b[2])[1] + Mul16(a[1], b[2])[2] + Mul16(a[2], b[1])[2] >= Limb
\* a * b modulo 2^32
WrappingMul(a, b) ==
    <<(Mul16(a[2], b[2])[1] + Mul16(a[1], b[2])[2] + Mul16(a[2], b[1])[2]) % Limb,
      Mul16(a[2], b[2])[2]>>

(* ------------------------------ readers ------------------------------- *)
\* variant: get_step reads the dim field
GetStepReadsDim(opt) == IF opt = None THEN 0 ELSE opt[1].dim

GetStep(opt) == IF opt = None THEN 0 ELSE opt[1].step
GetDim(opt) == IF opt = None THEN 0 ELSE opt[1].dim

\* to_le_bytes: the value with the number of bytes it is serialised into
LeBytes(width, v) == [bytes |-> width, val |-> v]

\* variant: the step counter is left out of the digest
HashInputNoStep(s) ==
    <<LeBytes(4, s.dim), LeBytes(8, s.alpha)>>
    \o [k \in 1 .. VecLen(s.field) |-> LeBytes(8, s.field[k - 1])]

\* the bytes fed to Sha256, in order; the digest is modelled by its input
HashInput(s) ==
    <<LeBytes(4, s.dim), LeBytes(8, s.step), LeBytes(8, s.alpha)>>
    \o [k \in 1 .. VecLen(s.field) |-> LeBytes(8, s.field[k - 1])]

\* variant: get_hash degrades to an empty digest input like the metadata getters
GetHashOrDefault(opt) == IF opt = None THEN Some(<<>>) ELSE Some(HashInput(opt[1]))

\* Some(digest) when get_hash returns, None when it panics
GetHash(opt) == IF opt = None THEN None ELSE Some(HashInput(opt[1]))

\* Vec::with_capacity(cap) of f64 panics when cap * 8 exceeds isize::MAX
CapacityOverflows(cap) == cap[1] >= 4096

RECURSIVE SliceLoopTransposed(_, _, _, _, _, _, _)
\* variant: the coordinates are swapped in the index
SliceLoopTransposed(s, x0, xEnd, yy, yEnd, xx, out) ==
    IF yy >= yEnd THEN out
    ELSE IF xx >= xEnd THEN SliceLoopTransposed(s, x0, xEnd, yy + 1, yEnd, x0, out)
    ELSE SliceLoopTransposed(s, x0, xEnd, yy, yEnd, xx + 1,
                             Push(out, s.field[idx(s.dim, yy, xx)]))

RECURSIVE SliceLoop(_, _, _, _, _, _, _)
\* for yy in y0..yEnd { for xx in x0..xEnd { out.push(field[idx(dim, xx, yy)]) } }
SliceLoop(s, x0, xEnd, yy, yEnd, xx, out) ==
    IF yy >= yEnd THEN out
    ELSE IF xx >= xEnd THEN SliceLoop(s, x0, xEnd, yy + 1, yEnd, x0, out)
    ELSE SliceLoop(s, x0, xEnd, yy, yEnd, xx + 1,
                   Push(out, s.field[idx(s.dim, xx, yy)]))

\* the indices the loops of get_field_slice read for the window it accepted
SliceIndices(dim, x0, y0, w, h) ==
    {idx(dim, xx, yy) :
        xx \in ToNat(x0) .. (ToNat(WrappingAdd(x0, w)) - 1),
        yy \in ToNat(y0) .. (ToNat(WrappingAdd(y0, h)) - 1)}

\* Some(out) when get_field_slice returns, None when it panics; checks is
\* whether the build traps on integer overflow
GetFieldSlice(opt, x0, y0, w, h, checks) ==
    IF opt = None THEN None
    ELSE LET s == opt[1]
             dim == U32(s.dim)
         IN  IF ~(Lt(x0, dim) /\ Lt(y0, dim)) THEN None
             ELSE IF ~(Le(U32(1), w) /\ Le(U32(1), h)) THEN None
             ELSE IF checks /\ AddOverflows(x0, w) THEN None
             ELSE IF ~Le(WrappingAdd(x0, w), dim) THEN None
             ELSE IF checks /\ AddOverflows(y0, h) THEN None
             ELSE IF ~Le(WrappingAdd(y0, h), dim) THEN None
             ELSE IF checks /\ MulOverflows(w, h) THEN None
             ELSE IF CapacityOverflows(WrappingMul(w, h)) THEN None
             ELSE Some(SliceLoop(s, ToNat(x0), ToNat(WrappingAdd(x0, w)),
                                 ToNat(y0), ToNat(WrappingAdd(y0, h)),
                                 ToNat(x0), EmptyVec))

(* ------------------------------ call log ------------------------------ *)
\* the last call: its arguments, whether it returned (ok) or panicked, the
\* value it returned, and the step counter get_step showed when it began
Call(op, args, ok, ret) ==
    [op |-> op, args |-> args, ok |-> ok, ret |-> ret, before |-> GetStep(state)]

DimInputs == {MinDim - 1} \cup (MinDim .. MaxGrid) \cup {MaxDim + 1}
SeedInputs == 0 .. MaxSeed
AlphaInputs == {0, 10, MaxAlpha, 30}
\* <<start, size>> of a window along one axis
Spans ==
    {<<U32(0), U32(MinDim)>>, <<U32(0), U32(MaxGrid)>>,
     <<U32(1), U32(2)>>, <<U32(1), U32(MinDim)>>, <<U32(MinDim), U32(1)>>,
     <<U32(0), U32(0)>>, <<U32(1), U32Max>>}
\* the windows asked of get_field_slice: every span on both axes at once, and
\* every span on one axis with the span <<0, MinDim>> on the other
Windows ==
    {<<xs, ys>> \in Spans \X Spans :
        xs = ys \/ xs = <<U32(0), U32(MinDim)>> \/ ys = <<U32(0), U32(MinDim)>>}

(* ------------------------------ actions ------------------------------- *)
Init ==
    /\ state = None
    /\ cfg = None
    /\ last = [op |-> "init", args |-> <<>>, ok |-> TRUE, ret |-> <<>>, before |-> 0]
    /\ overflow_checks \in BOOLEAN

init_engine(dim, seed, alpha) ==
    /\ state' = InitEngineState(state, dim, seed, alpha)
    /\ cfg' = IF InitAsserts(dim, alpha)
              THEN Some([dim |-> dim, seed |-> seed, alpha |-> alpha])
              ELSE cfg
    /\ last' = Call("init_engine", <<dim, seed, alpha>>, InitAsserts(dim, alpha), <<>>)
    /\ UNCHANGED overflow_checks

tick(n) ==
    /\ state # None => state[1].step + n <= MaxStep
    /\ state' = TickState(state, n)
    /\ last' = Call("tick", <<n>>, TickOk(state, n), <<>>)
    /\ UNCHANGED <<cfg, overflow_checks>>

get_step ==
    /\ last' = Call("get_step", <<>>, TRUE, Some(GetStep(state)))
    /\ UNCHANGED <<state, cfg, overflow_checks>>

get_dim ==
    /\ last' = Call("get_dim", <<>>, TRUE, Some(GetDim(state)))
    /\ UNCHANGED <<state, cfg, overflow_checks>>

\* variant: get_hash takes the engine state out of the cell to read it
get_hash_takes ==
    /\ LET out == GetHash(state)
       IN  last' = Call("get_hash", <<>>, out # None, out)
    /\ state' = None
    /\ UNCHANGED <<cfg, overflow_checks>>

get_hash ==
    /\ LET out == GetHash(state)
       IN  last' = Call("get_hash", <<>>, out # None, out)
    /\ UNCHANGED <<state, cfg, overflow_checks>>

get_field_slice(x0, y0, w, h) ==
    /\ LET out == GetFieldSlice(state, x0, y0, w, h, overflow_checks)
       IN  last' = Call("get_field_slice", <<x0, y0, w, h>>, out # None, out)
    /\ UNCHANGED <<state, cfg, overflow_checks>>

Next ==
    \/ \E dim \in DimInputs, seed \in SeedInputs, alpha \in AlphaInputs :
          init_engine(dim, seed, alpha)
    \/ \E n \in 0 .. MaxN : tick(n)
    \/ get_step
    \/ get_dim
    \/ get_hash
    \/ \E win \in Windows :
          get_field_slice(win[1][1], win[2][1], win[1][2], win[2][2])

Spec == Init /\ [][Next]_vars

(* ------------------------------ claims -------------------------------- *)
\* the guard of init_engine compared with the documented range over every
\* dim from 0 past MaxDim, for each alpha of the model
GuardIsRange ==
    \A dim \in 0 .. (MaxDim + 8), alpha \in AlphaInputs :
        InitAsserts(dim, alpha)
            <=> (4 <= dim /\ dim <= 512 /\ 0 < alpha /\ alpha * 4 <= AlphaScale)

\* C1: init_engine(dim, seed, alpha) returns (and installs the new state) if
\* and only if 4 <= dim <= 512 and 0 < alpha <= 0.25, for every seed and
\* whatever the state was; dim 3 and 513, alpha 0 and 0.3 fail, dim 4 and
\* 512 and alpha 0.25 succeed.
C1_InitSucceedsIffInRange ==
    /\ GuardIsRange
    /\ InitAsserts(MaxDim, MaxAlpha) /\ ~InitAsserts(MaxDim + 1, MaxAlpha)
    /\ last.op = "init_engine" =>
          LET dim == last.args[1]
              alpha == last.args[3]
          IN  /\ last.ok <=> (4 <= dim /\ dim <= 512 /\ 0 < alpha /\ alpha * 4 <= AlphaScale)
              /\ last.ok => /\ state # None
                            /\ state[1].dim = dim
                            /\ state[1].alpha = alpha
                            /\ cfg = Some([dim |-> dim, seed |-> last.args[2], alpha |-> alpha])

\* a boundary call, init_engine(4, seed, 0.25), has succeeded over a state
\* that had already been advanced
C1_Witness ==
    /\ last.op = "init_engine" /\ last.ok
    /\ last.args[1] = 4 /\ last.args[3] = 25
    /\ last.before > 0

\* C2: a failed init_engine leaves the engine exactly as it was: dim, step,
\* alpha and every field value of a held state are unchanged, and an
\* uninitialized engine stays uninitialized.
C2_FailedInitKeepsState ==
    [][(last'.op = "init_engine" /\ ~last'.ok) => (state' = state /\ cfg' = cfg)]_vars

\* init_engine has failed on an engine holding an advanced state
C2_Witness ==
    /\ last.op = "init_engine" /\ ~last.ok
    /\ state # None /\ state[1].step > 0

\* C3: tick(n) on an engine no init_engine ever succeeded on panics for every
\* n, 0 included, performs no step and creates no engine: get_step and
\* get_dim still return 0 and get_hash still panics.
C3_TickUninitializedFails ==
    [][(last'.op = "tick" /\ cfg = None) =>
          /\ ~last'.ok
          /\ state = None /\ state' = None /\ cfg' = None
          /\ GetStep(state') = 0 /\ GetDim(state') = 0 /\ GetHash(state') = None]_vars

\* tick(0) has been called on an engine never initialized
C3_Witness ==
    /\ last.op = "tick" /\ last.args[1] = 0
    /\ cfg = None /\ state = None /\ ~last.ok

\* C4: on an initialized engine tick(n) adds exactly n to step for every
\* n >= 0 (tick(0) changes nothing at all) and leaves dim, alpha and the
\* length of the field as they were.
C4_TickAddsN ==
    [][(last'.op = "tick" /\ state # None) =>
          LET n == last'.args[1]
          IN  /\ last'.ok /\ state' # None
              /\ state'[1].step = state[1].step + n
              /\ state'[1].dim = state[1].dim
              /\ state'[1].alpha = state[1].alpha
              /\ DOMAIN state'[1].field = DOMAIN state[1].field
              /\ VecLen(state'[1].field) = state[1].dim * state[1].dim
              /\ (n = 0 => state' = state)]_vars

\* tick(n) with n >= 2 has returned on an engine that had been advanced before
C4_Witness ==
    /\ last.op = "tick" /\ last.ok /\ last.args[1] >= 2
    /\ last.before > 0
    /\ state[1].step = last.before + last.args[1]

\* the cell (x, y) of the field F after one step, as the specification
\* states it, with floored modulo
SpecCell(F, dim, alpha, x, y) ==
    F[y * dim + x]
    + FMul(alpha, F[y * dim + ((x - 1) % dim)] + F[y * dim + ((x + 1) % dim)]
                  + F[((y - 1) % dim) * dim + x] + F[((y + 1) % dim) * dim + x]
                  - 4 * F[y * dim + x])

\* C5: one step computes every cell from the field as it was when the step
\* began: after tick(1) from field F, new(x,y) = F(x,y) + alpha * (F(x-1,y) +
\* F(x+1,y) + F(x,y-1) + F(x,y+1) - 4 F(x,y)) with coordinates taken modulo
\* dim (floored); for dim = 4 the cell (0,0) uses (3,0), (1,0), (0,3), (0,1).
C5_StepReadsSnapshot ==
    [][(last'.op = "tick" /\ last'.ok /\ last'.args[1] = 1) =>
          LET F == state[1].field
              G == state'[1].field
              dim == state[1].dim
              alpha == state[1].alpha
          IN  /\ \A x \in 0 .. (dim - 1), y \in 0 .. (dim - 1) :
                    G[y * dim + x] = SpecCell(F, dim, alpha, x, y)
              /\ dim = 4 =>
                    G[0] = F[0] + FMul(alpha, F[3] + F[1] + F[12] + F[4] - 4 * F[0])]_vars

\* tick(1) has returned on a 4 x 4 grid whose cells are not all equal
C5_Witness ==
    /\ last.op = "tick" /\ last.ok /\ last.args[1] = 1
    /\ state[1].dim = 4
    /\ \E i, j \in DOMAIN state[1].field : state[1].field[i] # state[1].field[j]
    /\ cfg[1].seed # 0

RECURSIVE TickOnes(_, _)
\* n successive tick(1) calls
TickOnes(st, n) == IF n = 0 THEN st ELSE Tick(TickOnes(st, n - 1), 1)

\* C6: from the same state, tick(a) followed by tick(b) gives the field and
\* the step counter of a single tick(a + b), for all a, b with a + b a valid
\* argument; tick(n) equals n successive tick(1) calls.  get_step is enabled
\* in every state and changes nothing, so the states it leaves carry every
\* reachable engine state once; the ticks are computed from those.
C6_StepAdditivity ==
    (state # None /\ last.op = "get_step") =>
        /\ \A a, b \in 0 .. MaxN :
              a + b <= MaxN => Tick(Tick(state[1], a), b) = Tick(state[1], a + b)
        /\ \A n \in 0 .. MaxN : Tick(state[1], n) = TickOnes(state[1], n)

\* an engine whose cells differ holds a state from which tick(2) and two
\* tick(1) can both be taken
C6_Witness ==
    /\ state # None /\ cfg[1].seed # 0
    /\ state[1].step + 2 <= MaxStep
    /\ Tick(state[1], 2).field # Tick(state[1], 1).field
    /\ last.op = "get_step" /\ last.ret = Some(1)

\* the state fixed by (dim, seed, alpha) and the number of steps alone: a
\* first init_engine followed by k separate tick(1)
Canon(c, k) == TickOnes(NewState(c.dim, c.seed, c.alpha), k)

\* Canon tabulated once over the configurations and step counts of the model
CanonTable ==
    [c \in [dim : MinDim .. MaxGrid, seed : SeedInputs,
            alpha : {a \in AlphaInputs : 0 < a /\ a <= MaxAlpha}]
        |-> [k \in 0 .. MaxStep |-> Canon(c, k)]]

\* C7: the engine state, and with it what get_step, get_dim, get_hash and
\* get_field_slice return, is a function of the (dim, seed, alpha) of the
\* last successful init_engine and the number of steps taken since, whatever
\* calls came before that init_engine and however the steps were split.
C7_Determinism ==
    /\ state = None <=> cfg = None
    /\ state # None =>
          LET canon == CanonTable[cfg[1]][state[1].step]
          IN  /\ state[1] = canon
              /\ last.op = "get_step" => last.ret = Some(canon.step)
              /\ last.op = "get_dim" => last.ret = Some(cfg[1].dim)
              /\ last.op = "get_hash" => last.ret = Some(HashInput(canon))
              /\ last.op = "get_field_slice" =>
                    last.ret = GetFieldSlice(Some(canon), last.args[1], last.args[2],
                                             last.args[3], last.args[4], overflow_checks)

\* the engine was advanced, initialized again with a seed whose cells
\* differ, and has since reached step 3 in more than one tick
C7_Witness ==
    /\ state # None /\ cfg[1].seed # 0 /\ state[1].step = 3
    /\ last.op = "tick" /\ last.ok /\ last.args[1] = 1 /\ last.before = 2

\* C8: a successful init_engine replaces the held state entirely: whatever
\* came before, the state afterwards has step 0, the given dim and alpha and
\* the field a first init_engine on an uninitialized engine produces.
C8_InitReplacesState ==
    [][(last'.op = "init_engine" /\ last'.ok) =>
          LET dim == last'.args[1]
              seed == last'.args[2]
              alpha == last'.args[3]
          IN  /\ state' = InitEngineState(None, dim, seed, alpha)
              /\ state'[1].step = 0
              /\ state'[1].dim = dim
              /\ state'[1].alpha = alpha
              /\ VecLen(state'[1].field) = dim * dim]_vars

\* init_engine(5, 1, alpha) has succeeded over a state advanced twice or more
C8_Witness ==
    /\ last.op = "init_engine" /\ last.ok
    /\ last.args[1] = 5 /\ last.args[2] = 1
    /\ last.before >= 2 /\ state[1].step = 0

\* C9: get_step and get_dim never fail; they return 0 while no init_engine
\* has succeeded, and otherwise the step counter and the dim of the last
\* successful init_engine.
C9_MetadataGetters ==
    /\ last.op = "get_step" =>
          /\ last.ok
          /\ last.ret = Some(IF cfg = None THEN 0 ELSE state[1].step)
          /\ cfg # None => last.ret = Some(last.before)
    /\ last.op = "get_dim" =>
          /\ last.ok
          /\ last.ret = Some(IF cfg = None THEN 0 ELSE cfg[1].dim)

\* get_step has returned 2 on an engine advanced twice
C9_Witness ==
    /\ last.op = "get_step" /\ last.ok /\ last.ret = Some(2)
    /\ cfg # None /\ state[1].step = 2

\* the window [x0, x0 + w) lies in [0, dim), the sum taken in the integers
InRange1D(x0, w, dim) ==
    /\ x0[1] = 0 /\ w[1] = 0
    /\ x0[2] < dim /\ w[2] >= 1 /\ x0[2] + w[2] <= dim

\* C10: get_hash and get_field_slice panic whenever no init_engine has ever
\* succeeded, whatever the window; once one has succeeded get_hash returns
\* and get_field_slice returns for every in-bounds window.
C10_DataReadersNeedInit ==
    /\ last.op = "get_hash" => (last.ok <=> cfg # None)
    /\ last.op = "get_hash" /\ ~last.ok => last.ret = None
    /\ (last.op = "get_field_slice" /\ cfg = None) => (~last.ok /\ last.ret = None)
    /\ (last.op = "get_field_slice" /\ cfg # None
        /\ InRange1D(last.args[1], last.args[3], cfg[1].dim)
        /\ InRange1D(last.args[2], last.args[4], cfg[1].dim)) => last.ok

\* get_hash has panicked on an engine never initialized
C10_Witness ==
    /\ last.op = "get_hash" /\ ~last.ok /\ cfg = None /\ state = None

Readers == {"get_step", "get_dim", "get_hash", "get_field_slice"}

\* C11: get_step, get_dim, get_hash and get_field_slice never change the
\* engine: after any of them, returned or panicked, the engine is initialized
\* or not as before and dim, step, alpha and every field value are unchanged.
C11_ReadersKeepState ==
    [][(last'.op \in Readers) =>
          /\ state' = state
          /\ cfg' = cfg
          /\ GetStep(state') = last'.before]_vars

\* get_field_slice has panicked on a window out of range, on an engine that
\* had been advanced
C11_Witness ==
    /\ last.op = "get_field_slice" /\ ~last.ok
    /\ state # None /\ state[1].step >= 1

\* C12: for every window with x0 < dim, y0 < dim, w >= 1, h >= 1,
\* x0 + w <= dim, y0 + h <= dim, get_field_slice returns w * h values, the
\* one at position j * w + i being field[(y0 + j) * dim + (x0 + i)]; the
\* window (0, 0, dim, dim) is the whole field in row-major order.
C12_SliceIsWindow ==
    (/\ last.op = "get_field_slice" /\ cfg # None
     /\ InRange1D(last.args[1], last.args[3], cfg[1].dim)
     /\ InRange1D(last.args[2], last.args[4], cfg[1].dim)) =>
        LET dim == cfg[1].dim
            x0 == last.args[1][2]
            y0 == last.args[2][2]
            w == last.args[3][2]
            h == last.args[4][2]
            out == last.ret[1]
        IN  /\ last.ok
            /\ DOMAIN out = 0 .. (w * h - 1)
            /\ \A i \in 0 .. (w - 1), j \in 0 .. (h - 1) :
                  out[j * w + i] = state[1].field[(y0 + j) * dim + (x0 + i)]
            /\ (x0 = 0 /\ y0 = 0 /\ w = dim /\ h = dim) => out = state[1].field

\* a window 2 wide and MinDim high, off the left edge, has been returned from
\* a field whose cells differ
C12_Witness ==
    /\ last.op = "get_field_slice" /\ last.ok
    /\ last.args = <<U32(1), U32(0), U32(2), U32(MinDim)>>
    /\ cfg # None /\ cfg[1].seed # 0
    /\ VecLen(last.ret[1]) = 2 * MinDim

\* C13: get_field_slice panics for every (x0, y0, w, h) that violates one of
\* x0 < dim, y0 < dim, w >= 1, h >= 1, x0 + w <= dim, y0 + h <= dim, the
\* sums taken in the integers, arguments near 2^32 included.
C13_SliceRejectsInvalid ==
    (/\ last.op = "get_field_slice" /\ cfg # None
     /\ ~(/\ InRange1D(last.args[1], last.args[3], cfg[1].dim)
          /\ InRange1D(last.args[2], last.args[4], cfg[1].dim))) => ~last.ok

RECURSIVE ByteCount(_, _)
\* the number of bytes in the first k chunks of a digest input
ByteCount(input, k) == IF k = 0 THEN 0 ELSE input[k].bytes + ByteCount(input, k - 1)

\* C14: get_hash called twice with no mutating call between returns the same
\* digest; the digest input is dim (4 bytes), step (8), alpha (8) and every
\* field value in row-major order (8 each), 20 + 8 * dim * dim bytes, so
\* states equal in these four hash equally; after a successful tick(n >= 1)
\* the digest input differs from the one before the call.  A get_hash
\* leaves the engine as it was and returns the digest of the state it
\* leaves, which is the state every later call sees until one mutates it.
C14_HashStability ==
    [][/\ (last'.op = "get_hash") =>
            /\ state' = state
            /\ last'.ret = GetHash(state')
            /\ last.op = "get_hash" => last'.ret = last.ret
       /\ (last'.op = "get_hash" /\ last'.ok) =>
            LET input == last'.ret[1]
                s == state'[1]
                n == s.dim * s.dim
            IN  /\ Len(input) = 3 + n
                /\ ByteCount(input, Len(input)) = 20 + 8 * n
                /\ input[1] = [bytes |-> 4, val |-> s.dim]
                /\ input[2] = [bytes |-> 8, val |-> s.step]
                /\ input[3] = [bytes |-> 8, val |-> s.alpha]
                /\ \A k \in 0 .. (n - 1) :
                      input[4 + k] = [bytes |-> 8, val |-> s.field[k]]
       /\ (last'.op = "tick" /\ last'.ok /\ last'.args[1] >= 1) =>
            HashInput(state'[1]) # HashInput(state[1])]_vars

\* get_hash has returned on an advanced engine whose field is constant, so
\* that the step counter alone tells its digest input from the earlier ones
C14_Witness ==
    /\ last.op = "get_hash" /\ last.ok
    /\ cfg[1].seed = 0 /\ state[1].step >= 1
    /\ Len(last.ret[1]) = 3 + state[1].dim * state[1].dim

\* C15: whenever the engine is initialized, 4 <= dim <= 512,
\* 0 < alpha <= 0.25 and the field holds exactly dim * dim values.
C15_StateInvariant ==
    state # None =>
        /\ 4 <= state[1].dim /\ state[1].dim <= 512
        /\ 0 < state[1].alpha /\ state[1].alpha * 4 <= AlphaScale
        /\ DOMAIN state[1].field = 0 .. (state[1].dim * state[1].dim - 1)
        /\ VecLen(state[1].field) = state[1].dim * state[1].dim

\* a grid of side 5 with alpha 0.25 has been advanced twice or more and then
\* asked for a window it rejected
C15_Witness ==
    /\ state # None /\ state[1].dim = 5 /\ state[1].alpha = 25
    /\ state[1].step >= 2
    /\ last.op = "get_field_slice" /\ ~last.ok

\* C16: step is 0 after a successful init_engine; no other call ever makes
\* get_step return less than before, and only tick changes it.
C16_StepMonotone ==
    [][/\ (last'.op = "init_engine" /\ last'.ok) => GetStep(state') = 0
       /\ ~(last'.op = "init_engine" /\ last'.ok) => GetStep(state') >= GetStep(state)
       /\ (last'.op # "tick" /\ ~(last'.op = "init_engine" /\ last'.ok))
             => GetStep(state') = GetStep(state)
       /\ (last'.op = "tick" /\ last'.ok)
             => GetStep(state') = GetStep(state) + last'.args[1]]_vars

\* the first tick(1) after an init_engine of a grid of side 5
C16_Witness ==
    /\ last.op = "tick" /\ last.ok /\ last.args[1] = 1
    /\ last.before = 0 /\ state[1].step = 1 /\ cfg[1].dim = 5

\* one xorshift iteration as the specification states it, bit by bit: bit i
\* of x << k is bit i - k of x, bit i of x >> k is bit i + k of x, and bits
\* shifted past bit 63 are dropped
SpecXorshift(x) ==
    LET a == {i : i \in {j \in Bits : (j \in x) # (j >= 13 /\ (j - 13) \in x)}}
        b == {i : i \in {j \in Bits : (j \in a) # (j + 7 <= 63 /\ (j + 7) \in a)}}
        c == {i : i \in {j \in Bits : (j \in b) # (j >= 17 /\ (j - 17) \in b)}}
    IN  c

RECURSIVE SpecIterates(_, _, _)
\* the values of the first n iterates of SpecXorshift on the word x, the
\* word x itself not among them: acc[i] is the value of the i-th iterate
SpecIterates(x, n, acc) ==
    IF Len(acc) = n THEN acc
    ELSE LET y == SpecXorshift(x)
         IN  SpecIterates(y, n, Append(acc, UnitValue(y)))

\* the value of cell k for each seed of the model: the (k + 1)-th iterate
SpecCellTable ==
    [seed \in SeedInputs |->
        LET vals == SpecIterates(NatBits(seed, 0), MaxGrid * MaxGrid, <<>>)
        IN  [k \in 0 .. (MaxGrid * MaxGrid - 1) |-> vals[k + 1]]]

\* C17: after init_engine(dim, seed, alpha) the cell at index k = y*dim + x
\* comes from the (k + 1)-th xorshift iterate of the seed, used verbatim (the
\* first cell from xorshift(seed), not from seed), an iteration being
\* x ^= x << 13; x ^= x >> 7; x ^= x << 17 on 64 bits.
C17_FieldFromIterates ==
    /\ xorshift64(NatBits(1, 0)) = NatBits(1082269761, 0)
    /\ (last.op = "init_engine" /\ last.ok) =>
          LET dim == last.args[1]
              seed == last.args[2]
          IN  /\ DOMAIN state[1].field = 0 .. (dim * dim - 1)
              /\ \A x \in 0 .. (dim - 1), y \in 0 .. (dim - 1) :
                    state[1].field[y * dim + x] = SpecCellTable[seed][y * dim + x]

\* init_engine(5, 1, alpha) has succeeded; the second cell of its field
\* differs from the first, so a shift of the sequence by one would show
C17_Witness ==
    /\ last.op = "init_engine" /\ last.ok
    /\ last.args[1] = 5 /\ last.args[2] = 1
    /\ state[1].field[1] # state[1].field[0]

\* C18: every index tick computes, the wrapped neighbours at the borders
\* included, and every index an accepted get_field_slice computes lies in
\* 0 .. dim*dim - 1; on an initialized engine tick never panics and
\* get_field_slice does not panic on a window inside the grid.
C18_IndicesInRange ==
    state # None =>
        LET dim == state[1].dim
            len == VecLen(state[1].field)
        IN  /\ \A x \in 0 .. (dim - 1), y \in 0 .. (dim - 1) :
                  \A i \in TickIndices(dim, x, y) : 0 <= i /\ i < len
            /\ (last.op = "tick" /\ last.before + last.args[1] = state[1].step)
                  => last.ok
            /\ (last.op = "get_field_slice" /\ last.ok) =>
                  \A i \in SliceIndices(dim, last.args[1], last.args[2],
                                        last.args[3], last.args[4]) :
                      0 <= i /\ i < len
            /\ (/\ last.op = "get_field_slice"
                /\ InRange1D(last.args[1], last.args[3], dim)
                /\ InRange1D(last.args[2], last.args[4], dim)) => last.ok

\* the whole grid of side MaxGrid has been read by get_field_slice after a
\* tick had run over its borders
C18_Witness ==
    /\ last.op = "get_field_slice" /\ last.ok
    /\ last.args = <<U32(0), U32(0), U32(MaxGrid), U32(MaxGrid)>>
    /\ state[1].step >= 1
    /\ VecLen(last.ret[1]) = MaxGrid * MaxGrid

\* C19: xorshift maps 0 to 0, so init_engine(dim, 0, alpha) fills the field
\* with -1, and that field is a fixed point of the stencil: after any tick
\* every cell still holds -1 and only the step counter has changed.
C19_SeedZeroFixedPoint ==
    /\ xorshift64({}) = {}
    /\ (cfg # None /\ cfg[1].seed = 0) =>
          /\ \A k \in 0 .. (cfg[1].dim * cfg[1].dim - 1) : state[1].field[k] = -One
          /\ (last.op = "tick" /\ last.ok) =>
                /\ state[1].step = last.before + last.args[1]
                /\ HashInput(state[1])[2].val = last.before + last.args[1]

\* an engine seeded with 0 has been advanced by tick(2) after an earlier tick
C19_Witness ==
    /\ cfg # None /\ cfg[1].seed = 0
    /\ last.op = "tick" /\ last.ok /\ last.args[1] = 2 /\ last.before >= 1
    /\ state[1].field[0] = -One

====
